---------------------------- MODULE Spec2Model ----------------------------
(***************************************************************************)
(* img2video: pixel-correspondence and motion-planning engine.             *)
(*                                                                         *)
(* Two images of equal width and height are turned into an AnimationPlan   *)
(* (reorder.go), which is then rendered by the linear renderers            *)
(* (output.go: SaveGIF, SaveImage; SaveFrames), or by the random-step      *)
(* SaveGIF variant.                                                        *)
(*                                                                         *)
(* Numbers.  The luma 0.299 R + 0.587 G + 0.114 B is kept as the exact     *)
(* integer 299 R + 587 G + 114 B (thousandths); the interval depth is kept *)
(* as an exact fraction.  The colours of the palette below are chosen so   *)
(* that the float64 evaluation orders and equates them exactly as the      *)
(* exact values do.                                                        *)
(***************************************************************************)
EXTENDS Integers, Sequences, FiniteSets, TLC

----------------------------------------------------------------------------
(* Bounds of the model *)

\* largest number of pixels of an exhaustively enumerated image
MaxPixels == 4
\* width of the one-row gradient images (large enough for steps above 1)
WideW == 125
\* largest index moved in a gradient image
MaxShift == 4

----------------------------------------------------------------------------
(* Integer helpers: abs (main.go), min (output.go), builtin max *)

abs(x) == IF x < 0 THEN -x ELSE x

\* the first argument, whatever the second
minLeft(a, b) == a

min(a, b) == IF a < b THEN a ELSE b

max(a, b) == IF a > b THEN a ELSE b

\* F applied to the value of x: x is evaluated first, once.  The loops of
\* this module run their first half, then their second half on its result,
\* which keeps the depth of evaluation logarithmic in the length.
Then(x, F(_)) == CHOOSE r \in {F(v) : v \in {x}} : TRUE

\* F applied to the values of lo, the middle of lo..hi, and hi
Halves(lo, hi, F(_, _, _)) == CHOOSE r \in {F(l, (l + h) \div 2, h) : l \in {lo}, h \in {hi}} : TRUE

----------------------------------------------------------------------------
(* Colours and images *)

RGBA(r, g, b, a) == [R |-> r, G |-> g, B |-> b, A |-> a]

Black == RGBA(0, 0, 0, 255)
White == RGBA(255, 255, 255, 255)
\* two colours of equal luma 29.07 that differ in green and red
Blue  == RGBA(0, 0, 255, 255)
Mix   == RGBA(11, 1, 221, 255)
\* the zero colour of a fresh image.NewRGBA; equal to Black on every key
Clear == RGBA(0, 0, 0, 0)

Palettes == {{Black, White}, {Blue, Mix}, {Black, Clear}}

\* the origins an image's bounds may have (a decoded GIF frame may be offset)
Origins == {<<0, 0>>, <<1, 2>>}

Rect(x0, y0, x1, y1) == [MinX |-> x0, MinY |-> y0, MaxX |-> x1, MaxY |-> y1]

Dx(b) == b.MaxX - b.MinX
Dy(b) == b.MaxY - b.MinY

\* image.Point.In(Rectangle)
In(x, y, b) == x >= b.MinX /\ x < b.MaxX /\ y >= b.MinY /\ y < b.MaxY

\* an image: its bounds and its colours in row-major order
Image(b, px) == [Bounds |-> b, Pix |-> px]

\* img.At(x, y) of an image that stores 8 bits per channel
At(img, x, y) ==
    IF In(x, y, img.Bounds)
    THEN img.Pix[(y - img.Bounds.MinY) * Dx(img.Bounds) + (x - img.Bounds.MinX) + 1]
    ELSE Clear

\* the k-th coordinate of a rectangle in scan order (y outer, x inner)
ScanOrder(b, k) == <<b.MinX + ((k - 1) % Dx(b)), b.MinY + ((k - 1) \div Dx(b))>>

Dims == {<<w, h>> \in (0..MaxPixels) \X (0..MaxPixels) :
            (w * h >= 1 /\ w * h <= MaxPixels) \/ (w = 0 /\ h = 0)}

SmallImages(pal, d) ==
    {Image(Rect(o[1], o[2], o[1] + d[1], o[2] + d[2]), px) :
        o \in Origins, px \in [1..(d[1] * d[2]) -> pal]}

\* one-row (or one-column) gradient: the k-th pixel has green perm[k]
Gradient(o, tall, perm) ==
    Image(IF tall THEN Rect(o[1], o[2], o[1] + 1, o[2] + WideW)
                  ELSE Rect(o[1], o[2], o[1] + WideW, o[2] + 1),
          [k \in 1..WideW |-> RGBA(0, perm[k], 0, 255)])

Identity == [k \in 1..WideW |-> k]

\* the permutation that exchanges columns i and j
Exchange(i, j) == [k \in 1..WideW |-> IF k = i THEN j ELSE IF k = j THEN i ELSE k]

WidePerms == {Exchange(1, 1 + s) : s \in 1..MaxShift}


----------------------------------------------------------------------------
(* reorder.go: pixel extraction and ranking *)

\* luma of an 8-bit colour, in thousandths
Luma(c) == 299 * c.R + 587 * c.G + 114 * c.B

\* an exact fraction n/d, d > 0
Frac(n, d) == [n |-> n, d |-> d]

FracLess(p, q) == p.n * q.d < q.n * p.d

Pixel(gray, x, y, c) ==
    [GrayscaleValue |-> gray, OriginalX |-> x, OriginalY |-> y, Color |-> c]

\* PixelFeatured{Pixel: p, IntervalDepth: depth}
PixelFeatured(p, depth) ==
    [GrayscaleValue |-> p.GrayscaleValue, OriginalX |-> p.OriginalX,
     OriginalY |-> p.OriginalY, Color |-> p.Color, IntervalDepth |-> depth]

\* Color.RGBA(): the 16-bit channels of an 8-bit colour
RGBA16(c) == [R |-> c.R * 257, G |-> c.G * 257, B |-> c.B * 257, A |-> c.A * 257]

\* uint8(v >> 8)
Uint8Shift8(v) == (v \div 256) % 256

imageToPixels(img) ==
    [k \in 1..(Dx(img.Bounds) * Dy(img.Bounds)) |->
        LET x == ScanOrder(img.Bounds, k)[1]
            y == ScanOrder(img.Bounds, k)[2]
            originalColor == RGBA16(At(img, x, y))
            c == RGBA(Uint8Shift8(originalColor.R), Uint8Shift8(originalColor.G),
                      Uint8Shift8(originalColor.B), Uint8Shift8(originalColor.A))
        IN  Pixel(Luma(c), x, y, c)]

\* a comparison by luma alone
PixelsLessLumaOnly(a, b) == a.GrayscaleValue < b.GrayscaleValue

\* Pixels.Less
PixelsLess(a, b) ==
    IF a.GrayscaleValue # b.GrayscaleValue
    THEN a.GrayscaleValue < b.GrayscaleValue
    ELSE IF a.Color.G # b.Color.G
         THEN a.Color.G < b.Color.G
         ELSE a.Color.R < b.Color.R

\* PixelsFeatured.Less
PixelsFeaturedLess(a, b) ==
    IF a.GrayscaleValue # b.GrayscaleValue
    THEN a.GrayscaleValue < b.GrayscaleValue
    ELSE FracLess(a.IntervalDepth, b.IntervalDepth)

Less(featured, a, b) ==
    IF featured THEN PixelsFeaturedLess(a, b) ELSE PixelsLess(a, b)

\* a swap that loses one of the two elements
SwapOverwrite(s, i, j) == [s EXCEPT ![i] = s[j]]

Swap(s, i, j) == [s EXCEPT ![i] = s[j], ![j] = s[i]]

\* sort.Sort: the insertion sort the library runs on short slices; on slices
\* whose elements are pairwise ordered by Less every sort gives this result
RECURSIVE SiftDown(_, _, _)
SiftDown(featured, s, j) ==
    IF j > 1 /\ Less(featured, s[j], s[j - 1])
    THEN SiftDown(featured, Swap(s, j, j - 1), j - 1)
    ELSE s

\* the outer loop, for i = lo, ..., hi in this order
RECURSIVE InsertionSort(_, _, _, _)
InsertionSort(featured, s, lo, hi) ==
    IF lo > hi THEN s
    ELSE IF lo = hi THEN SiftDown(featured, s, lo)
    ELSE Then(InsertionSort(featured, s, lo, (lo + hi) \div 2),
              LAMBDA half : InsertionSort(featured, half, (lo + hi) \div 2 + 1, hi))

Sort(featured, s) == InsertionSort(featured, s, 2, Len(s))

----------------------------------------------------------------------------
(* reorder.go: the featured ranking of the target *)

\* color.GrayModel: (19595*r + 38470*g + 7471*b + 1<<15) >> 24 on the 16-bit
\* channels r = 257 R, g = 257 G, b = 257 B.  The uint32 sum 257 t + 2^15,
\* t = 19595 R + 38470 G + 7471 B, exceeds 31 bits, so it is shifted in two
\* parts, t = 2^16 hi + lo.
GrayY(c) ==
    LET t  == 19595 * Uint8Shift8(RGBA16(c).R) + 38470 * Uint8Shift8(RGBA16(c).G)
              + 7471 * Uint8Shift8(RGBA16(c).B)
        hi == t \div 65536
        lo == t % 65536
    IN  ((257 * hi + (257 * lo + 32768) \div 65536) \div 256) % 256

\* grayGrid[y][x]
grayGrid(img, x, y) == GrayY(At(img, x, y))

\* the whole window, cells outside the bounds included
WindowUnclipped(cx, cy, radius, bounds) ==
    ((cx - radius)..(cx + radius)) \X ((cy - radius)..(cy + radius))

Window(cx, cy, radius, bounds) ==
    {<<x, y>> \in ((cx - radius)..(cx + radius)) \X ((cy - radius)..(cy + radius)) :
        In(x, y, bounds)}

RECURSIVE SumGray(_, _)
SumGray(img, cells) ==
    IF cells = {} THEN 0
    ELSE LET cell == CHOOSE p \in cells : TRUE
         IN  grayGrid(img, cell[1], cell[2]) + SumGray(img, cells \ {cell})

calculateAverageGray(cx, cy, radius, img, bounds) ==
    LET cells == Window(cx, cy, radius, bounds)
        count == Cardinality(cells)
    IN  IF count = 0 THEN Frac(0, 1) ELSE Frac(SumGray(img, cells), count)

\* avg5x5*0.25 + avg3x3*0.75
calculateIntervalDepth(x, y, img, bounds) ==
    LET avg3x3 == calculateAverageGray(x, y, 1, img, bounds)
        avg5x5 == calculateAverageGray(x, y, 2, img, bounds)
    IN  Frac(avg5x5.n * avg3x3.d + 3 * avg3x3.n * avg5x5.d,
             4 * avg5x5.d * avg3x3.d)

----------------------------------------------------------------------------
(* reorder.go: the plan *)

AnimationPixel(sx, sy, tx, ty, c) ==
    [StartX |-> sx, StartY |-> sy, TargetX |-> tx, TargetY |-> ty, Color |-> c]

\* the steps counted as |dx| + |dy|
ChebyshevSum(ap) == abs(ap.TargetX - ap.StartX) + abs(ap.TargetY - ap.StartY)

Chebyshev(ap) == max(abs(ap.TargetX - ap.StartX), abs(ap.TargetY - ap.StartY))

\* the running maximum after pixels lo, ..., hi, from the value m
RECURSIVE maxMoveSteps(_, _, _, _)
maxMoveSteps(m, pixels, lo, hi) ==
    IF lo > hi THEN m
    ELSE IF lo = hi
         THEN LET currentPixelSteps == Chebyshev(pixels[lo])
              IN  IF currentPixelSteps > m THEN currentPixelSteps ELSE m
    ELSE Then(maxMoveSteps(m, pixels, lo, (lo + hi) \div 2),
              LAMBDA half : maxMoveSteps(half, pixels, (lo + hi) \div 2 + 1, hi))

\* the result of indexing targetPixels past its end
Panic == [panic |-> "index out of range"]

calculatePlan(sourcePixels, targetPixels, bounds) ==
    IF Len(targetPixels) < Len(sourcePixels) THEN Panic
    ELSE LET animationPixels ==
                 [i \in 1..Len(sourcePixels) |->
                     AnimationPixel(sourcePixels[i].OriginalX, sourcePixels[i].OriginalY,
                                    targetPixels[i].OriginalX, targetPixels[i].OriginalY,
                                    sourcePixels[i].Color)]
         IN  [Pixels |-> animationPixels,
              Frames |-> maxMoveSteps(0, animationPixels, 1, Len(animationPixels)) + 1,
              Bounds |-> bounds]

SortedSource(img) == Sort(FALSE, imageToPixels(img))

SortedTargetDefault(img) ==
    LET targetPixels == Sort(FALSE, imageToPixels(img))
    IN  [i \in 1..Len(targetPixels) |-> PixelFeatured(targetPixels[i], Frac(0, 1))]

SortedTargetFeatured(img) ==
    LET targetPixelsRaw == imageToPixels(img)
        targetPixelsFeatured ==
            [i \in 1..Len(targetPixelsRaw) |->
                PixelFeatured(targetPixelsRaw[i],
                    calculateIntervalDepth(targetPixelsRaw[i].OriginalX,
                                           targetPixelsRaw[i].OriginalY, img, img.Bounds))]
    IN  Sort(TRUE, targetPixelsFeatured)

CreateAnimationPlan(src, tgt) ==
    calculatePlan(SortedSource(src), SortedTargetDefault(tgt), src.Bounds)

CreateAnimationPlanFeatured(src, tgt) ==
    calculatePlan(SortedSource(src), SortedTargetFeatured(tgt), src.Bounds)


\* CalculateGrayscaleSum, in thousandths
RECURSIVE SumLuma(_, _, _)
SumLuma(img, lo, hi) ==
    IF lo > hi THEN 0
    ELSE IF lo = hi
         THEN LET c16 == RGBA16(At(img, ScanOrder(img.Bounds, lo)[1],
                                        ScanOrder(img.Bounds, lo)[2]))
              IN  299 * Uint8Shift8(c16.R) + 587 * Uint8Shift8(c16.G)
                  + 114 * Uint8Shift8(c16.B)
    ELSE SumLuma(img, lo, (lo + hi) \div 2) + SumLuma(img, (lo + hi) \div 2 + 1, hi)

CalculateGrayscaleSum(img) == SumLuma(img, 1, Dx(img.Bounds) * Dy(img.Bounds))

----------------------------------------------------------------------------
(* output.go: the linear renderers *)

\* image.NewRGBA
NewRGBA(b) == Image(b, [k \in 1..(Dx(b) * Dy(b)) |-> Clear])

\* (*image.RGBA).Set: a write outside the bounds is dropped
Set(img, x, y, c) ==
    IF In(x, y, img.Bounds)
    THEN Image(img.Bounds,
               [img.Pix EXCEPT ![(y - img.Bounds.MinY) * Dx(img.Bounds)
                                 + (x - img.Bounds.MinX) + 1] = c])
    ELSE img

\* a position that is not clamped at the target
calculatePixelPositionUnclamped(ap, frameNum) ==
    LET dx == ap.TargetX - ap.StartX
        dy == ap.TargetY - ap.StartY
    IN  <<IF dx > 0 THEN ap.StartX + frameNum
          ELSE IF dx < 0 THEN ap.StartX - frameNum ELSE ap.StartX,
          IF dy > 0 THEN ap.StartY + frameNum
          ELSE IF dy < 0 THEN ap.StartY - frameNum ELSE ap.StartY>>

calculatePixelPosition(ap, frameNum) ==
    LET dx == ap.TargetX - ap.StartX
        dy == ap.TargetY - ap.StartY
        movedX == min(frameNum, abs(dx))
        movedY == min(frameNum, abs(dy))
        currentX == IF dx > 0 THEN ap.StartX + movedX
                    ELSE IF dx < 0 THEN ap.StartX - movedX ELSE ap.StartX
        currentY == IF dy > 0 THEN ap.StartY + movedY
                    ELSE IF dy < 0 THEN ap.StartY - movedY ELSE ap.StartY
    IN  <<currentX, currentY>>

\* the inner loop of SaveGIF and SaveFrames: pixels lo, ..., hi painted in
\* plan order
RECURSIVE PaintFrame(_, _, _, _, _)
PaintFrame(img, pixels, frameNum, lo, hi) ==
    IF lo > hi THEN img
    ELSE IF lo = hi
         THEN LET pos == calculatePixelPosition(pixels[lo], frameNum)
              IN  Set(img, pos[1], pos[2], pixels[lo].Color)
    ELSE Then(PaintFrame(img, pixels, frameNum, lo, (lo + hi) \div 2),
              LAMBDA half : PaintFrame(half, pixels, frameNum, (lo + hi) \div 2 + 1, hi))

\* the loop of SaveImage: pixels lo, ..., hi painted in plan order
RECURSIVE PaintFinal(_, _, _, _)
PaintFinal(img, pixels, lo, hi) ==
    IF lo > hi THEN img
    ELSE IF lo = hi
         THEN Set(img, pixels[lo].TargetX, pixels[lo].TargetY, pixels[lo].Color)
    ELSE Then(PaintFinal(img, pixels, lo, (lo + hi) \div 2),
              LAMBDA half : PaintFinal(half, pixels, (lo + hi) \div 2 + 1, hi))

----------------------------------------------------------------------------
(* the random-step SaveGIF *)

ScaleDivisor == 150

\* int(scale) for scale = d / 150.0
IntScale(d) == d \div ScaleDivisor

\* int(math.Round(float64(baseStep) * scale)), halves rounded away from zero
RoundScaled(baseStep, d) == (2 * baseStep * d + ScaleDivisor) \div (2 * ScaleDivisor)

\* a step without its floor of 1
stepUnfloored(baseStep, d) == RoundScaled(baseStep, d)

\* stepX and stepY: max(max(1, int(scale)), round(baseStep * scale))
step(baseStep, d) == max(max(1, IntScale(d)), RoundScaled(baseStep, d))

\* rand.Intn(3) + 1
BaseSteps == 1..3

\* the pairs (stepX, stepY) one pixel can draw in one frame
StepPairs(b) == {<<step(bx, Dx(b)), step(by, Dy(b))>> : bx \in BaseSteps, by \in BaseSteps}

\* an update that never snaps to the target
moveAxisNoSnap(cur, tgt, st) ==
    IF tgt - cur > 0 THEN cur + st ELSE cur - st

\* one axis of the per-pixel update
moveAxis(cur, tgt, st) ==
    LET d == tgt - cur
    IN  IF abs(d) <= st THEN tgt
        ELSE IF d > 0 THEN cur + st ELSE cur - st

\* currentFrameRGBA.Set(state.X, state.Y, ap.Color) for pixels lo, ..., hi
RECURSIVE PaintStates(_, _, _, _, _)
PaintStates(img, pixels, states, lo, hi) ==
    IF lo > hi THEN img
    ELSE IF lo = hi
         THEN Set(img, states[lo].X, states[lo].Y, pixels[lo].Color)
    ELSE Halves(lo, hi, LAMBDA l, m, h :
             Then(PaintStates(img, pixels, states, l, m),
                  LAMBDA half : PaintStates(half, pixels, states, m + 1, h)))

----------------------------------------------------------------------------
(* The program as a state machine *)

VARIABLES
    sourceImg,     \* the decoded source image
    targetImg,     \* the decoded target image
    algorithm,     \* "default" or "featured"
    pc,            \* "start", "planned", "linear", "random", "done", "panic"
    output,        \* the renderer that ran: "none", "linear", "image", "random"
    sourcePixels,  \* CreateAnimationPlan*: the ranked source pixels
    targetPixels,  \* CreateAnimationPlan*: the ranked target pixels
    plan,          \* the AnimationPlan
    frameNum,      \* SaveGIF / SaveFrames: the loop counter
    gifFrames,     \* SaveGIF / SaveFrames: the frames painted so far
    finalImage,    \* SaveImage: the rearranged image
    pixelStates,   \* random SaveGIF: the current position of every pixel
    frameCount,    \* random SaveGIF: the frame counter
    randFrames,    \* random SaveGIF: the frames painted so far
    movingPasses   \* random SaveGIF: the passes that set allArrived to false

vars == <<sourceImg, targetImg, algorithm, pc, output, sourcePixels, targetPixels,
          plan, frameNum, gifFrames, finalImage, pixelStates, frameCount, randFrames,
          movingPasses>>

NoPlan == [Pixels |-> <<>>, Frames |-> 0, Bounds |-> Rect(0, 0, 0, 0)]

\* pairs of small images of equal width and height
SmallPairs ==
    {<<s, t>> \in UNION {SmallImages(pal, d) \X SmallImages(pal, d) :
                            pal \in Palettes, d \in Dims} :
        s.Bounds.MinX = 0 \/ s.Bounds = t.Bounds}

\* pairs of gradients: the target is the source with two pixels exchanged
WidePairs ==
    {<<Gradient(o, tall, Identity), Gradient(o, tall, perm)>> :
        o \in Origins, tall \in BOOLEAN, perm \in WidePerms}

Fresh ==
    /\ pc = "start"
    /\ output = "none"
    /\ sourcePixels = <<>>
    /\ targetPixels = <<>>
    /\ plan = NoPlan
    /\ frameNum = 0
    /\ gifFrames = <<>>
    /\ finalImage = NewRGBA(Rect(0, 0, 0, 0))
    /\ pixelStates = <<>>
    /\ frameCount = 0
    /\ randFrames = <<>>
    /\ movingPasses = 0

\* main has read two images and found their widths and heights equal
Init ==
    /\ \E pair \in SmallPairs \cup WidePairs :
          sourceImg = pair[1] /\ targetImg = pair[2]
    /\ algorithm \in {"default", "featured"}
    /\ Fresh

Planned(sp, tp) ==
    /\ sourcePixels' = sp
    /\ targetPixels' = tp
    /\ plan' = calculatePlan(sp, tp, sourceImg.Bounds)
    /\ pc' = IF plan' = Panic THEN "panic" ELSE "planned"
    /\ UNCHANGED <<sourceImg, targetImg, algorithm, output, frameNum, gifFrames,
                   finalImage, pixelStates, frameCount, randFrames,
                   movingPasses>>

CreatePlanDefault ==
    /\ pc = "start"
    /\ algorithm = "default"
    /\ Planned(SortedSource(sourceImg), SortedTargetDefault(targetImg))

CreatePlanFeatured ==
    /\ pc = "start"
    /\ algorithm = "featured"
    /\ Planned(SortedSource(sourceImg), SortedTargetFeatured(targetImg))

\* SaveGIF / SaveFrames (linear): one pass of the frame loop, or its exit
LinearFrame ==
    /\ \/ pc = "planned" /\ output = "none"
       \/ pc = "linear"
    /\ output' = "linear"
    /\ IF frameNum < plan.Frames
       THEN /\ gifFrames' = Append(gifFrames,
                    PaintFrame(NewRGBA(plan.Bounds), plan.Pixels, frameNum,
                               1, Len(plan.Pixels)))
            /\ frameNum' = frameNum + 1
            /\ pc' = "linear"
       ELSE /\ pc' = "done"
            /\ UNCHANGED <<gifFrames, frameNum>>
    /\ UNCHANGED <<sourceImg, targetImg, algorithm, sourcePixels, targetPixels, plan,
                   finalImage, pixelStates, frameCount, randFrames,
                   movingPasses>>

SaveImage ==
    /\ pc = "planned"
    /\ output = "none"
    /\ output' = "image"
    /\ finalImage' = PaintFinal(NewRGBA(plan.Bounds), plan.Pixels, 1, Len(plan.Pixels))
    /\ pc' = "done"
    /\ UNCHANGED <<sourceImg, targetImg, algorithm, sourcePixels, targetPixels, plan,
                   frameNum, gifFrames, pixelStates, frameCount, randFrames,
                   movingPasses>>

\* random SaveGIF up to the loop: the pixel states and the first frame
RandomStart ==
    /\ pc = "planned"
    /\ output = "none"
    /\ output' = "random"
    /\ pixelStates' = [i \in 1..Len(plan.Pixels) |->
                          [X |-> plan.Pixels[i].StartX, Y |-> plan.Pixels[i].StartY]]
    /\ randFrames' = <<PaintFrame(NewRGBA(plan.Bounds), plan.Pixels, 0, 1, Len(plan.Pixels))>>
    /\ frameCount' = 1
    /\ movingPasses' = 0
    /\ pc' = "random"
    /\ UNCHANGED <<sourceImg, targetImg, algorithm, sourcePixels, targetPixels, plan,
                   frameNum, gifFrames, finalImage>>

\* a test that looks at the column only
NotArrivedX(state, ap) == state.X # ap.TargetX

\* state.X != ap.TargetX || state.Y != ap.TargetY
NotArrived(state, ap) == state.X # ap.TargetX \/ state.Y # ap.TargetY

Moving(states) == {i \in 1..Len(plan.Pixels) : NotArrived(states[i], plan.Pixels[i])}

\* random SaveGIF: one pass of the frame loop, with the steps drawn for the
\* pixels that have not arrived
RandomFrame ==
    /\ pc = "random"
    /\ frameCount' = frameCount + 1
    /\ \E steps \in [Moving(pixelStates) -> StepPairs(plan.Bounds)] :
          pixelStates' =
              [i \in 1..Len(plan.Pixels) |->
                  IF NotArrived(pixelStates[i], plan.Pixels[i])
                  THEN [X |-> moveAxis(pixelStates[i].X, plan.Pixels[i].TargetX, steps[i][1]),
                        Y |-> moveAxis(pixelStates[i].Y, plan.Pixels[i].TargetY, steps[i][2])]
                  ELSE pixelStates[i]]
    /\ randFrames' = Append(randFrames,
            PaintStates(NewRGBA(plan.Bounds), plan.Pixels, pixelStates', 1, Len(plan.Pixels)))
    /\ movingPasses' = IF Moving(pixelStates) = {} THEN movingPasses ELSE movingPasses + 1
    /\ pc' = IF Moving(pixelStates) = {} THEN "done" ELSE "random"
    /\ UNCHANGED <<sourceImg, targetImg, algorithm, output, sourcePixels, targetPixels,
                   plan, frameNum, gifFrames, finalImage>>

Next ==
    \/ CreatePlanDefault
    \/ CreatePlanFeatured
    \/ LinearFrame
    \/ SaveImage
    \/ RandomStart
    \/ RandomFrame

Spec == Init /\ [][Next]_vars

\* the program run with the random-step SaveGIF as its renderer; the
\* sequential frame loop keeps running until it breaks
NextRandom ==
    \/ CreatePlanDefault
    \/ CreatePlanFeatured
    \/ RandomStart
    \/ RandomFrame

\* the random-step SaveGIF reads a colour only to paint it: its inputs are
\* the black-and-white pairs and the gradients
TwoTone(img) == \A k \in DOMAIN img.Pix : img.Pix[k] \in {Black, White}

RandomPairs == {p \in SmallPairs : TwoTone(p[1]) /\ TwoTone(p[2])} \cup WidePairs

InitRandom ==
    /\ \E pair \in RandomPairs : sourceImg = pair[1] /\ targetImg = pair[2]
    /\ algorithm \in {"default", "featured"}
    /\ Fresh

RandomSpec == InitRandom /\ [][NextRandom]_vars /\ WF_vars(RandomFrame)

\* CreateAnimationPlan and CreateAnimationPlanFeatured applied to any two
\* images: the functions themselves compare no dimensions
AnyImages == UNION {SmallImages(pal, d) : pal \in Palettes, d \in Dims}

InitAny ==
    /\ sourceImg \in {s \in AnyImages : s.Bounds.MinX = 0}
    /\ targetImg \in {t \in AnyImages : t.Bounds.MinX = 0}
    /\ algorithm \in {"default", "featured"}
    /\ Fresh

NextAny == CreatePlanDefault \/ CreatePlanFeatured

SpecAny == InitAny /\ [][NextAny]_vars

\* plan creation alone, on the inputs of Init
PlanSpec == Init /\ [][NextAny]_vars

----------------------------------------------------------------------------
(* Vocabulary of the properties *)

HasPlan == pc \notin {"start", "panic"}

\* the state in which CreateAnimationPlan* has just returned its plan
JustPlanned == pc = "planned"

PlanIndices == 1..Len(plan.Pixels)

\* the number of pixels of the source image
N == Dx(sourceImg.Bounds) * Dy(sourceImg.Bounds)

Coords(b) == {<<x, y>> \in (b.MinX..(b.MaxX - 1)) \X (b.MinY..(b.MaxY - 1)) : TRUE}

Dist(a, b) == IF a < b THEN b - a ELSE a - b

Larger(a, b) == IF a < b THEN b ELSE a

Smaller(a, b) == IF a < b THEN a ELSE b

Sign(d) == IF d > 0 THEN 1 ELSE IF d < 0 THEN -1 ELSE 0

\* the Chebyshev distance of plan entry i
Far(i) == Larger(Dist(plan.Pixels[i].TargetX, plan.Pixels[i].StartX),
                 Dist(plan.Pixels[i].TargetY, plan.Pixels[i].StartY))

\* the ranking key (luma, green, red) of a colour, compared lexicographically
KeyLeq(c1, c2) ==
    \/ Luma(c1) < Luma(c2)
    \/ Luma(c1) = Luma(c2) /\ c1.G < c2.G
    \/ Luma(c1) = Luma(c2) /\ c1.G = c2.G /\ c1.R <= c2.R

----------------------------------------------------------------------------
(* C1 *)

\* C1: for images of equal width and height and for both algorithms the plan
\* is a bijection: it has N entries, every source coordinate is the start of
\* exactly one entry and every target coordinate the target of exactly one.
C1_PlanIsBijection ==
    JustPlanned =>
        /\ Len(plan.Pixels) = N
        /\ \A c \in Coords(sourceImg.Bounds) :
              Cardinality({i \in PlanIndices :
                  plan.Pixels[i].StartX = c[1] /\ plan.Pixels[i].StartY = c[2]}) = 1
        /\ \A c \in Coords(targetImg.Bounds) :
              Cardinality({i \in PlanIndices :
                  plan.Pixels[i].TargetX = c[1] /\ plan.Pixels[i].TargetY = c[2]}) = 1

\* a featured plan of four pixels, tied in pairs, in which a pixel moves
C1_Witness ==
    /\ pc = "planned"
    /\ algorithm = "featured"
    /\ N = 4
    /\ \E i, j \in PlanIndices : i # j /\ plan.Pixels[i].Color = plan.Pixels[j].Color
    /\ \E i \in PlanIndices : Far(i) > 0

----------------------------------------------------------------------------
(* C2 *)

\* C2: Frames - 1 is the largest Chebyshev distance of the plan's pixels, and
\* 0 for a plan without pixels.
C2_FramesIsMaxDistance ==
    JustPlanned =>
        /\ \A i \in PlanIndices : Far(i) <= plan.Frames - 1
        /\ \/ \E i \in PlanIndices : Far(i) = plan.Frames - 1
           \/ PlanIndices = {} /\ plan.Frames - 1 = 0

\* a plan whose farthest pixel moves 2 columns and 3 rows
C2_Witness ==
    /\ pc = "planned"
    /\ plan.Frames = 4
    /\ \E i \in PlanIndices :
          /\ Dist(plan.Pixels[i].TargetX, plan.Pixels[i].StartX) = 2
          /\ Dist(plan.Pixels[i].TargetY, plan.Pixels[i].StartY) = 3

----------------------------------------------------------------------------
(* C3 *)

\* frame shows colour c at (x, y)
Shows(frame, x, y, c) == In(x, y, frame.Bounds) /\ At(frame, x, y) = c

\* C3: at frame 0 calculatePixelPosition gives every pixel its start and at
\* frame Frames-1 its target; the first frame painted by SaveGIF / SaveFrames
\* shows every pixel at its start with its colour, and the last frame shows
\* every pixel at its target.
C3_BoundaryFrames ==
    HasPlan =>
        \A i \in PlanIndices :
            LET ap == plan.Pixels[i]
            IN  /\ calculatePixelPosition(ap, 0) = <<ap.StartX, ap.StartY>>
                /\ calculatePixelPosition(ap, plan.Frames - 1) = <<ap.TargetX, ap.TargetY>>
                /\ Len(gifFrames) >= 1 =>
                      Shows(gifFrames[1], ap.StartX, ap.StartY, ap.Color)
                /\ Len(gifFrames) = plan.Frames =>
                      Shows(gifFrames[plan.Frames], ap.TargetX, ap.TargetY, ap.Color)

----------------------------------------------------------------------------
(* C4 *)

\* C4: the total luma of the image painted from the plan (every pixel's
\* colour at its target) equals the total luma of the source image.
C4_LumaConserved ==
    (pc = "done" /\ output = "image") =>
        CalculateGrayscaleSum(finalImage) = CalculateGrayscaleSum(sourceImg)

----------------------------------------------------------------------------
(* C6 *)

\* C6: at every frame f < Frames a pixel is displaced on each axis by
\* min(f, |d|) in the direction of d; from f to f+1 its distance to the target
\* does not grow on either axis, it never passes the target, and at the
\* target it stays.
C6_LinearMotion ==
    JustPlanned =>
        \A i \in PlanIndices : \A f \in 0..(plan.Frames - 1) :
            LET ap   == plan.Pixels[i]
                pos  == calculatePixelPosition(ap, f)
                nxt  == calculatePixelPosition(ap, f + 1)
                dx   == ap.TargetX - ap.StartX
                dy   == ap.TargetY - ap.StartY
            IN  /\ pos[1] = ap.StartX + Sign(dx) * Smaller(f, Dist(dx, 0))
                /\ pos[2] = ap.StartY + Sign(dy) * Smaller(f, Dist(dy, 0))
                /\ f + 1 < plan.Frames =>
                      /\ Dist(ap.TargetX, nxt[1]) <= Dist(ap.TargetX, pos[1])
                      /\ Dist(ap.TargetY, nxt[2]) <= Dist(ap.TargetY, pos[2])
                      /\ pos[1] = ap.TargetX => nxt[1] = ap.TargetX
                      /\ pos[2] = ap.TargetY => nxt[2] = ap.TargetY
                /\ Sign(ap.TargetX - pos[1]) \in {0, Sign(dx)}
                /\ Sign(ap.TargetY - pos[2]) \in {0, Sign(dy)}

\* a pixel that moves on both axes reaches its column before the last frame
\* and holds it while it still moves along its row
C6_Witness ==
    /\ JustPlanned
    /\ \E i \in PlanIndices : \E f \in 1..(plan.Frames - 2) :
          /\ plan.Pixels[i].TargetX # plan.Pixels[i].StartX
          /\ calculatePixelPosition(plan.Pixels[i], f)[1] = plan.Pixels[i].TargetX
          /\ calculatePixelPosition(plan.Pixels[i], f)[2] # plan.Pixels[i].TargetY

----------------------------------------------------------------------------
(* C7 *)

RandomRunning == output = "random" /\ pc = "random"

RandomEnded == output = "random" /\ pc = "done"

\* the first frame is the source; the loop cannot run beyond Frames passes;
\* when it has ended every pixel is at its target
C7_RandomSafe ==
    output = "random" =>
        /\ \A i \in PlanIndices :
              Shows(randFrames[1], plan.Pixels[i].StartX, plan.Pixels[i].StartY,
                    plan.Pixels[i].Color)
        /\ frameCount <= plan.Frames + 1
        /\ pc = "done" =>
              \A i \in PlanIndices :
                  /\ pixelStates[i].X = plan.Pixels[i].TargetX
                  /\ pixelStates[i].Y = plan.Pixels[i].TargetY

\* C7: in the random-step SaveGIF, for every plan and every sequence of step
\* draws, the frame loop terminates, the first frame shows every pixel at its
\* start, and when the loop ends every pixel is at its target.
C7_RandomGIF == []C7_RandomSafe /\ (RandomRunning ~> RandomEnded)

\* the loop has ended after a pass in which a pixel moved by more than one
C7_Witness ==
    /\ RandomEnded
    /\ \E k \in 1..(Len(randFrames) - 1) : \E i \in PlanIndices :
          /\ Shows(randFrames[k], plan.Pixels[i].StartX, plan.Pixels[i].StartY,
                   plan.Pixels[i].Color)
          /\ plan.Pixels[i].Color # Clear
          /\ \E d \in {2, 3} :
                \/ Shows(randFrames[k + 1], plan.Pixels[i].StartX + d,
                         plan.Pixels[i].StartY, plan.Pixels[i].Color)
                \/ Shows(randFrames[k + 1], plan.Pixels[i].StartX,
                         plan.Pixels[i].StartY + d, plan.Pixels[i].Color)

----------------------------------------------------------------------------
(* C8 *)

\* the failure the claim names
DimensionMismatch == [error |-> "dimension mismatch"]

\* C8: when the ranked source and target sequences differ in length, plan
\* computation fails with a dimension-mismatch error: it returns no plan
\* and aborts in no other way.
C8_MismatchFails ==
    (pc # "start" /\ Len(sourcePixels) # Len(targetPixels)) =>
        plan = DimensionMismatch

----------------------------------------------------------------------------
(* C9 *)

\* C9: of two distinct records of a ranked sequence exactly one ranks before
\* the other, also when they are equal on all ranking keys.
C9_TotalOrder ==
    HasPlan =>
        /\ \A i, j \in 1..Len(sourcePixels) :
              i # j => (PixelsLess(sourcePixels[i], sourcePixels[j])
                        # PixelsLess(sourcePixels[j], sourcePixels[i]))
        /\ \A i, j \in 1..Len(targetPixels) :
              i # j => (Less(algorithm = "featured", targetPixels[i], targetPixels[j])
                        # Less(algorithm = "featured", targetPixels[j], targetPixels[i]))

----------------------------------------------------------------------------
(* C10 *)

BlackWhite == Image(Rect(0, 0, 2, 1), <<Black, White>>)

WhiteBlack == Image(Rect(0, 0, 2, 1), <<White, Black>>)

\* C10: under the default strategy the plan pairs by rank in ascending order
\* of (luma, green, red), on the source side and on the target side; the
\* source [black, white] and the target [white, black] give the plan
\* black -> (1,0), white -> (0,0) with Frames = 2.
C10_DefaultPairsByRank ==
    (JustPlanned /\ algorithm = "default") =>
        /\ \A i, j \in PlanIndices :
              i < j =>
                /\ KeyLeq(At(sourceImg, plan.Pixels[i].StartX, plan.Pixels[i].StartY),
                          At(sourceImg, plan.Pixels[j].StartX, plan.Pixels[j].StartY))
                /\ KeyLeq(At(targetImg, plan.Pixels[i].TargetX, plan.Pixels[i].TargetY),
                          At(targetImg, plan.Pixels[j].TargetX, plan.Pixels[j].TargetY))
        /\ (sourceImg = BlackWhite /\ targetImg = WhiteBlack) =>
              /\ plan.Pixels = <<AnimationPixel(0, 0, 1, 0, Black),
                                 AnimationPixel(1, 0, 0, 0, White)>>
              /\ plan.Frames = 2

\* the plan of the source [black, white] and the target [white, black]
C10_Witness ==
    /\ pc = "planned"
    /\ algorithm = "default"
    /\ sourceImg = BlackWhite
    /\ targetImg = WhiteBlack

----------------------------------------------------------------------------
(* C11 *)

\* the plan entries the linear model paints at coordinate c in frame f
PaintedAt(c, f) == {i \in PlanIndices : calculatePixelPosition(plan.Pixels[i], f) = c}

\* C11: at frame 0 and at frame Frames-1 of the linear model no two plan
\* pixels are painted at the same coordinate, and every one of the N
\* coordinates of the raster is written exactly once.
C11_BoundaryFramesCollisionFree ==
    JustPlanned =>
        \A f \in {0, plan.Frames - 1} :
            /\ \A i, j \in PlanIndices :
                  i # j => calculatePixelPosition(plan.Pixels[i], f)
                           # calculatePixelPosition(plan.Pixels[j], f)
            /\ \A c \in Coords(plan.Bounds) : Cardinality(PaintedAt(c, f)) = 1

----------------------------------------------------------------------------
(* C12 *)

\* one axis of a pixel goes from cur to nxt with step st: onto the target tgt
\* when the remaining distance is at most st, else by st toward the target
AxisUpdated(cur, nxt, tgt, st) ==
    IF Dist(tgt, cur) <= st
    THEN nxt = tgt
    ELSE nxt = cur + Sign(tgt - cur) * st

\* one axis comes no farther from the target and does not pass it
AxisCloser(cur, nxt, tgt) ==
    /\ Dist(tgt, nxt) <= Dist(tgt, cur)
    /\ Sign(tgt - nxt) \in {0, Sign(tgt - cur)}

\* what one pass of the random-step loop does to pixel i
PixelUpdated(i) ==
    LET ap == plan.Pixels[i]
        old == pixelStates[i]
        new == pixelStates'[i]
    IN  IF old.X = ap.TargetX /\ old.Y = ap.TargetY
        THEN new = old
        ELSE /\ \E sp \in StepPairs(plan.Bounds) :
                   /\ AxisUpdated(old.X, new.X, ap.TargetX, sp[1])
                   /\ AxisUpdated(old.Y, new.Y, ap.TargetY, sp[2])
             /\ AxisCloser(old.X, new.X, ap.TargetX)
             /\ AxisCloser(old.Y, new.Y, ap.TargetY)

\* C12: in a pass of the random-step loop every drawn step is at least 1; a
\* pixel not at its target goes, on each axis, onto the target when the
\* remaining distance is at most the step and by the step toward it
\* otherwise, so its distance never grows and it never passes the target; a
\* pixel at its target is not moved.
C12_RandomStep ==
    [][pc = "random" =>
          /\ \A sp \in StepPairs(plan.Bounds) : sp[1] >= 1 /\ sp[2] >= 1
          /\ \A i \in PlanIndices : PixelUpdated(i)]_vars

\* the loop has ended after a pixel four away from its target moved by a
\* step of 3, then went onto its target, then stayed there
C12_Witness ==
    /\ RandomEnded
    /\ \E i \in PlanIndices : \E k \in 1..(Len(randFrames) - 3) :
          LET ap == plan.Pixels[i]
              sx == Sign(ap.TargetX - ap.StartX)
              sy == Sign(ap.TargetY - ap.StartY)
          IN  /\ Far(i) = 4
              /\ Shows(randFrames[k], ap.StartX, ap.StartY, ap.Color)
              /\ Shows(randFrames[k + 1], ap.StartX + 3 * sx, ap.StartY + 3 * sy, ap.Color)
              /\ Shows(randFrames[k + 2], ap.TargetX, ap.TargetY, ap.Color)
              /\ Shows(randFrames[k + 3], ap.TargetX, ap.TargetY, ap.Color)

----------------------------------------------------------------------------
(* C13 *)

\* the k-th cell, k = 0, 1, ..., of the (2r+1)x(2r+1) window centred on (x, y)
WindowCell(x, y, r, k) == <<x - r + (k % (2 * r + 1)), y - r + (k \div (2 * r + 1))>>

\* the k-th cell of the window lies inside the bounds of img
CellInBounds(img, x, y, r, k) ==
    In(WindowCell(x, y, r, k)[1], WindowCell(x, y, r, k)[2], img.Bounds)

\* the nominal area of the window
Area(r) == (2 * r + 1) * (2 * r + 1)

\* the average the claim describes, as sum over count: the window is walked
\* cell by cell, a cell outside the bounds adds nothing to either
ClippedAverage(img, x, y, r) ==
    LET gray[k \in 0..(Area(r) - 1)] ==
            (IF k = 0 THEN 0 ELSE gray[k - 1])
            + (IF CellInBounds(img, x, y, r, k)
               THEN GrayY(At(img, WindowCell(x, y, r, k)[1], WindowCell(x, y, r, k)[2]))
               ELSE 0)
    IN  [n |-> gray[Area(r) - 1],
         d |-> Cardinality({k \in 0..(Area(r) - 1) : CellInBounds(img, x, y, r, k)})]

\* C13: for every target coordinate and radius 1 and 2, calculateAverageGray
\* is the sum of the gray values of the window's cells inside the image
\* bounds divided by the number of those cells, whatever the origin of the
\* bounds; the interval depth of the ranked target pixel is built from these
\* two averages.
C13_ClippedWindowAverage ==
    (JustPlanned /\ algorithm = "featured") =>
        \A i \in 1..Len(targetPixels) :
            \A x \in {targetPixels[i].OriginalX} : \A y \in {targetPixels[i].OriginalY} :
            \A avg3 \in {ClippedAverage(targetImg, x, y, 1)} :
            \A avg5 \in {ClippedAverage(targetImg, x, y, 2)} :
                /\ calculateAverageGray(x, y, 1, targetImg, targetImg.Bounds) = avg3
                /\ calculateAverageGray(x, y, 2, targetImg, targetImg.Bounds) = avg5
                /\ avg3.d >= 1 /\ avg5.d >= avg3.d /\ avg5.d <= Area(2)
                /\ targetPixels[i].IntervalDepth =
                      [n |-> avg5.n * avg3.d + 3 * avg3.n * avg5.d,
                       d |-> 4 * avg5.d * avg3.d]

\* a featured plan for a 2x2 target whose bounds start at (1,2), with a white
\* and a black pixel: every window is cut to 4 cells
C13_Witness ==
    /\ JustPlanned
    /\ algorithm = "featured"
    /\ targetImg.Bounds = Rect(1, 2, 3, 4)
    /\ \E i, j \in 1..Len(targetPixels) :
          /\ targetPixels[i].Color = White
          /\ targetPixels[j].Color = Black
          /\ ClippedAverage(targetImg, targetPixels[i].OriginalX,
                            targetPixels[i].OriginalY, 2).d = 4
          /\ ClippedAverage(targetImg, targetPixels[i].OriginalX,
                            targetPixels[i].OriginalY, 2).n >= 255

----------------------------------------------------------------------------
(* C14 *)

\* C14: the image SaveImage paints (every pixel's colour at its target, in
\* plan order) is, coordinate by coordinate, the last frame the linear
\* SaveGIF / SaveFrames paint (every pixel at calculatePixelPosition(ap,
\* Frames-1), in plan order).
C14_FinalImageIsLastFrame ==
    /\ (pc = "done" /\ output = "image") =>
          finalImage = PaintFrame(NewRGBA(plan.Bounds), plan.Pixels, plan.Frames - 1,
                                  1, Len(plan.Pixels))
    /\ (pc = "done" /\ output = "linear") =>
          /\ Len(gifFrames) = plan.Frames
          /\ gifFrames[plan.Frames] =
                PaintFinal(NewRGBA(plan.Bounds), plan.Pixels, 1, Len(plan.Pixels))

\* the linear loop has ended on a plan of at least 3 frames in which a pixel
\* that moves reaches its target before the last frame and is shown there
C14_Witness ==
    /\ pc = "done"
    /\ output = "linear"
    /\ plan.Frames >= 3
    /\ \E i \in PlanIndices :
          /\ Far(i) >= 1
          /\ Far(i) < plan.Frames - 1
          /\ plan.Pixels[i].Color # Clear
          /\ Shows(gifFrames[plan.Frames], plan.Pixels[i].TargetX,
                   plan.Pixels[i].TargetY, plan.Pixels[i].Color)

----------------------------------------------------------------------------
(* C15 *)

\* pixel i is at its target
AtTarget(i) ==
    /\ pixelStates[i].X = plan.Pixels[i].TargetX
    /\ pixelStates[i].Y = plan.Pixels[i].TargetY

\* the frames the random-step SaveGIF has emitted
Emitted == Len(randFrames)

\* the counts of the random-step loop: one frame before the loop and one per
\* pass, at most as many passes with a pixel under way as the largest
\* Chebyshev distance, and after the exit 2 frames more than such passes,
\* with the last two frames alike
C15_Frames ==
    output = "random" =>
        /\ Emitted = frameCount
        /\ \/ movingPasses = 0
           \/ \E i \in PlanIndices : movingPasses <= Far(i)
        /\ pc = "random" => Emitted = 1 + movingPasses
        /\ pc = "done" =>
              /\ Emitted = 2 + movingPasses
              /\ \A i \in PlanIndices : AtTarget(i)
              /\ randFrames[Emitted] = randFrames[Emitted - 1]
              /\ (\A i \in PlanIndices : Far(i) = 0) => Emitted = 2

\* a pass of the loop emits one frame, and it is the last pass exactly when
\* it found every pixel at its target
C15_Exit ==
    pc = "random" =>
        /\ Len(randFrames') = Emitted + 1
        /\ pc' = "done" <=> \A i \in PlanIndices : AtTarget(i)

\* C15: the random-step loop exits only in a pass that finds every pixel at
\* its target, and that pass still emits a frame: the frames emitted are 2
\* plus the passes in which a pixel was not yet at its target, the last two
\* frames are alike, a plan whose pixels start at their targets gives 2
\* frames, and the total is at most 2 + the largest Chebyshev distance.
C15_RandomLoopExit == []C15_Frames /\ [][C15_Exit]_vars

\* the loop has ended after 2 passes with a pixel under way, on a plan whose
\* farthest pixel is 4 away: 4 frames, fewer than the bound of 6
C15_Witness ==
    /\ RandomEnded
    /\ movingPasses = 2
    /\ Emitted = 4
    /\ \E i \in PlanIndices : Far(i) = 4

=============================================================================
